---- MODULE Spec2Model ----
(***************************************************************************)
(* State-machine model of openraft's tokio backend,                        *)
(* src/openraft/src/type_config/async_runtime/impls/tokio_runtime.rs.      *)
(*                                                                         *)
(* Every method of that file forwards to the tokio primitive of the same   *)
(* name (tokio::sync::mpsc unbounded, tokio::sync::oneshot,                *)
(* tokio::sync::watch, tokio::time, tokio::task).  A definition below      *)
(* models the forwarding method                                            *)
(* together with the tokio operation it calls; the Tokio* operators are    *)
(* the tokio halves and the Map* operators are the wrapper's own error     *)
(* conversions (map_err).                                                  *)
(*                                                                         *)
(* The variables accepted, delivered and last are history variables: they  *)
(* record what the operations returned to their callers and never          *)
(* influence the channel state.                                            *)
(***************************************************************************)
EXTENDS Naturals, Sequences, FiniteSets

\* ------------------------------------------------------------------ bounds

\* number of strong sender handles that can ever exist on the mpsc channel
MaxSenders == 2
\* total number of mpsc send calls
MaxSends == 3

\* number of oneshot() calls
MaxOneshots == 2

\* number of watch receiver handles that can ever exist
MaxReceivers == 2
\* number of notifying writes to the watch slot
MaxWrites == 3

\* the clock runs from 0 to MaxTime
MaxTime == 3
\* number of sleep / sleep_until calls
MaxSleeps == 2
\* number of spawn calls
MaxTasks == 1
\* number of steps (effects) a spawned unit of work can take
MaxSteps == 2

Senders == 1 .. MaxSenders
Sleeps == 1 .. MaxSleeps
Tasks == 1 .. MaxTasks
Oneshots == 1 .. MaxOneshots
Receivers == 1 .. MaxReceivers
\* the payloads carried by the oneshot and watch channels
Values == {"a", "b"}
NoVal == "-"

\* ------------------------------------------------------------------ state

VARIABLES
    tx,         \* mpsc: handle -> "none" | "alive" | "dropped"  (UnboundedSender)
    weak,       \* mpsc: "none" | "alive" | "dropped"            (WeakUnboundedSender)
    rx,         \* mpsc: "none" | "alive" | "dropped"            (UnboundedReceiver)
    chan,       \* mpsc: the queued messages, oldest first
    rxPc,       \* mpsc: "idle" | "pending": is a recv() future being awaited
    nsend,      \* mpsc: number of send calls made so far (numbers the messages)
    accepted,   \* mpsc history: messages whose send returned Ok, in order
    delivered,  \* mpsc history: messages returned by recv / try_recv, in order
    upgraded,   \* mpsc history: the live strong handles that upgrade() returned
    last        \* mpsc history: the latest call, its result, and the channel
                \* state it was made in

VARIABLES
    oTx,        \* oneshot: channel -> "none" | "alive" | "sent" | "dropped"
    oRx,        \* oneshot: channel -> "none" | "idle" | "pending" | "done" | "dropped"
    oSlot,      \* oneshot: channel -> the value stored by send, or NoVal
    oSend,      \* oneshot history: channel -> the send call and its result
    oRecv,      \* oneshot history: channel -> what the awaited receiver resolved with
    oCount      \* oneshot history: channel -> number of sends and of resolutions

VARIABLES
    wTx,        \* watch: "none" | "alive" | "dropped"              (watch::Sender)
    wValue,     \* watch: the value in the slot
    wVersion,   \* watch: the slot's version counter
    wRx,        \* watch: receiver -> "none" | "alive" | "dropped"  (watch::Receiver)
    wSeen,      \* watch: receiver -> the version it has marked seen
    wPc,        \* watch: receiver -> "idle" | "pending": a changed() is awaited
    wEpoch,     \* watch history: number of notifying writes so far
    wObs,       \* watch history: receiver -> wEpoch when it last marked the slot seen
    wLatest,    \* watch history: the value of the latest write of any kind
    wLast       \* watch history: the latest call, its result and its context

VARIABLES
    now,        \* time: the clock (TokioInstant)
    sleeps,     \* time: sleep -> [st, deadline, at]: "none" | "pending" | "done"
    slOrder,    \* time history: the sleeps in the order they resolved
    tmo,        \* time: the Timeout future and the operation it wraps
    tmoLog      \* time history: the outcomes the Timeout produced, in order

VARIABLES
    task        \* spawn: task -> the unit of work, its progress and its JoinHandle

mpscVars == <<tx, weak, rx, chan, rxPc, nsend, accepted, delivered, upgraded, last>>
oneshotVars == <<oTx, oRx, oSlot, oSend, oRecv, oCount>>

watchVars == <<wTx, wValue, wVersion, wRx, wSeen, wPc, wEpoch, wObs, wLatest, wLast>>

timeVars == <<now, sleeps, slOrder, tmo, tmoLog>>
taskVars == <<task>>

vars == <<mpscVars, oneshotVars, watchVars, timeVars, taskVars>>

\* ------------------------------------------------------------------ mpsc

\* the message passed to the n-th send call, made through handle s
Msg(s, n) == [from |-> s, seq |-> n]
NoMsg == [from |-> 0, seq |-> 0]

\* a call that returns nothing to inspect
Call(op) == [op |-> op, tag |-> "-", val |-> NoMsg, arg |-> NoMsg,
             qlen |-> 0, strong |-> 0, rxAlive |-> FALSE]

\* tokio's tx_count: the number of live strong senders
StrongCount == Cardinality({s \in Senders : tx[s] = "alive"})

\* tokio UnboundedSender::send: refused once the receive half is closed,
\* otherwise the message is appended; there is no capacity check.
TokioSendNoReturn(rxState, q, msg) ==
    IF rxState = "alive"
    THEN [ok |-> TRUE, q |-> Append(q, msg), e0 |-> NoMsg]
    ELSE [ok |-> FALSE, q |-> q, e0 |-> NoMsg]
TokioSendLifo(rxState, q, msg) ==
    IF rxState = "alive"
    THEN [ok |-> TRUE, q |-> <<msg>> \o q, e0 |-> NoMsg]
    ELSE [ok |-> FALSE, q |-> q, e0 |-> msg]
TokioSendLossy(rxState, q, msg) ==
    IF rxState = "alive"
    THEN [ok |-> TRUE, q |-> IF Len(q) >= 1 THEN q ELSE Append(q, msg), e0 |-> NoMsg]
    ELSE [ok |-> FALSE, q |-> q, e0 |-> msg]
TokioSend(rxState, q, msg) ==
    IF rxState = "alive"
    THEN [ok |-> TRUE, q |-> Append(q, msg), e0 |-> NoMsg]
    ELSE [ok |-> FALSE, q |-> q, e0 |-> msg]

\* .map_err(|e| mpsc_unbounded::SendError(e.0))
MapSendError(r) ==
    IF r.ok THEN [tag |-> "Ok", val |-> NoMsg]
            ELSE [tag |-> "Err", val |-> r.e0]

\* tokio's list pop as seen by the receiver: the head value, or Closed once
\* every strong sender is gone and the queue is drained, or Empty.
TokioPopEarlyClose(q, strong) ==
    IF strong = 0 THEN [tag |-> "Closed", val |-> NoMsg, q |-> q]
    ELSE IF q # <<>> THEN [tag |-> "Value", val |-> Head(q), q |-> Tail(q)]
    ELSE [tag |-> "Empty", val |-> NoMsg, q |-> q]
TokioPop(q, strong) ==
    IF q # <<>> THEN [tag |-> "Value", val |-> Head(q), q |-> Tail(q)]
    ELSE IF strong = 0 THEN [tag |-> "Closed", val |-> NoMsg, q |-> q]
    ELSE [tag |-> "Empty", val |-> NoMsg, q |-> q]

\* match e { Empty => TryRecvError::Empty, Disconnected => TryRecvError::Disconnected }
MapTryRecvErrorSwapped(tag) ==
    IF tag = "Closed" THEN "Empty" ELSE "Disconnected"
MapTryRecvError(tag) ==
    IF tag = "Closed" THEN "Disconnected" ELSE "Empty"

\* TokioMpscUnbounded::channel(): one strong sender and the receiver
MpscChannel ==
    /\ rx = "none"
    /\ tx' = [tx EXCEPT ![1] = "alive"]
    /\ rx' = "alive"
    /\ last' = Call("channel")
    /\ UNCHANGED <<oneshotVars, watchVars, timeVars, taskVars>>
    /\ UNCHANGED <<weak, chan, rxPc, nsend, accepted, delivered, upgraded>>

\* MpscUnboundedSender::send(&self, msg)
MpscSend(s) ==
    /\ tx[s] = "alive"
    /\ nsend < MaxSends
    /\ LET msg == Msg(s, nsend + 1)
           r == TokioSend(rx, chan, msg)
           res == MapSendError(r)
       IN /\ chan' = r.q
          /\ nsend' = nsend + 1
          /\ accepted' = IF res.tag = "Ok" THEN Append(accepted, msg) ELSE accepted
          /\ last' = [op |-> "send", tag |-> res.tag, val |-> res.val, arg |-> msg,
                      qlen |-> Len(chan), strong |-> StrongCount,
                      rxAlive |-> (rx = "alive")]
    /\ UNCHANGED <<oneshotVars, watchVars, timeVars, taskVars>>
    /\ UNCHANGED <<tx, weak, rx, rxPc, delivered, upgraded>>

\* UnboundedSender::clone: a new strong handle on the same channel
MpscSenderClone(s, t) ==
    /\ tx[s] = "alive"
    /\ tx[t] = "none"
    /\ tx' = [tx EXCEPT ![t] = "alive"]
    /\ last' = Call("clone")
    /\ UNCHANGED <<oneshotVars, watchVars, timeVars, taskVars>>
    /\ UNCHANGED <<weak, rx, chan, rxPc, nsend, accepted, delivered, upgraded>>

\* drop of a strong sender handle
MpscSenderDrop(s) ==
    /\ tx[s] = "alive"
    /\ tx' = [tx EXCEPT ![s] = "dropped"]
    /\ upgraded' = upgraded \ {s}
    /\ last' = Call("drop")
    /\ UNCHANGED <<oneshotVars, watchVars, timeVars, taskVars>>
    /\ UNCHANGED <<weak, rx, chan, rxPc, nsend, accepted, delivered>>

\* MpscUnboundedSender::downgrade(&self)
MpscDowngrade(s) ==
    /\ tx[s] = "alive"
    /\ weak = "none"
    /\ weak' = "alive"
    /\ last' = Call("downgrade")
    /\ UNCHANGED <<oneshotVars, watchVars, timeVars, taskVars>>
    /\ UNCHANGED <<tx, rx, chan, rxPc, nsend, accepted, delivered, upgraded>>

\* tokio WeakUnboundedSender::upgrade: Some iff tx_count is not zero
TokioUpgradeNever(strong) == FALSE
TokioUpgradeAlways(strong) == TRUE
TokioUpgrade(strong) == strong > 0

\* MpscUnboundedWeakSender::upgrade(&self)
MpscUpgrade(t) ==
    /\ weak = "alive"
    /\ tx[t] = "none"
    /\ LET some == TokioUpgrade(StrongCount)
       IN /\ tx' = IF some THEN [tx EXCEPT ![t] = "alive"] ELSE tx
          /\ upgraded' = IF some THEN upgraded \cup {t} ELSE upgraded
          /\ last' = [op |-> "upgrade", tag |-> IF some THEN "Some" ELSE "None",
                      val |-> NoMsg, arg |-> NoMsg, qlen |-> Len(chan),
                      strong |-> StrongCount, rxAlive |-> (rx = "alive")]
    /\ UNCHANGED <<oneshotVars, watchVars, timeVars, taskVars>>
    /\ UNCHANGED <<weak, rx, chan, rxPc, nsend, accepted, delivered>>

\* drop of the weak handle
MpscWeakDrop ==
    /\ weak = "alive"
    /\ weak' = "dropped"
    /\ last' = Call("weak_drop")
    /\ UNCHANGED <<oneshotVars, watchVars, timeVars, taskVars>>
    /\ UNCHANGED <<tx, rx, chan, rxPc, nsend, accepted, delivered, upgraded>>

\* MpscUnboundedReceiver::recv(&mut self): the future is created and polled;
\* it stays pending until MpscRecvResolve.
MpscRecvCall ==
    /\ rx = "alive"
    /\ rxPc = "idle"
    /\ rxPc' = "pending"
    /\ last' = Call("recv_call")
    /\ UNCHANGED <<oneshotVars, watchVars, timeVars, taskVars>>
    /\ UNCHANGED <<tx, weak, rx, chan, nsend, accepted, delivered, upgraded>>

\* self.recv().await resolves: Some(head) or, once closed and drained, None
MpscRecvResolve ==
    /\ rx = "alive"
    /\ rxPc = "pending"
    /\ LET p == TokioPop(chan, StrongCount)
       IN /\ p.tag # "Empty"
          /\ chan' = p.q
          /\ delivered' = IF p.tag = "Value" THEN Append(delivered, p.val) ELSE delivered
          /\ last' = [op |-> "recv",
                      tag |-> IF p.tag = "Value" THEN "Some" ELSE "None",
                      val |-> p.val, arg |-> NoMsg, qlen |-> Len(chan),
                      strong |-> StrongCount, rxAlive |-> TRUE]
    /\ rxPc' = "idle"
    /\ UNCHANGED <<oneshotVars, watchVars, timeVars, taskVars>>
    /\ UNCHANGED <<tx, weak, rx, nsend, accepted, upgraded>>

\* MpscUnboundedReceiver::try_recv(&mut self)
MpscTryRecv ==
    /\ rx = "alive"
    /\ rxPc = "idle"
    /\ LET p == TokioPop(chan, StrongCount)
       IN /\ chan' = p.q
          /\ delivered' = IF p.tag = "Value" THEN Append(delivered, p.val) ELSE delivered
          /\ last' = [op |-> "try_recv",
                      tag |-> IF p.tag = "Value" THEN "Ok" ELSE MapTryRecvError(p.tag),
                      val |-> p.val, arg |-> NoMsg, qlen |-> Len(chan),
                      strong |-> StrongCount, rxAlive |-> TRUE]
    /\ UNCHANGED <<oneshotVars, watchVars, timeVars, taskVars>>
    /\ UNCHANGED <<tx, weak, rx, rxPc, nsend, accepted, upgraded>>

\* drop of the receiver: the channel is closed and the queued messages freed
MpscReceiverDrop ==
    /\ rx = "alive"
    /\ rx' = "dropped"
    /\ chan' = <<>>
    /\ rxPc' = "idle"
    /\ last' = Call("rx_drop")
    /\ UNCHANGED <<oneshotVars, watchVars, timeVars, taskVars>>
    /\ UNCHANGED <<tx, weak, nsend, accepted, delivered, upgraded>>

MpscInit ==
    /\ tx = [s \in Senders |-> "none"]
    /\ weak = "none"
    /\ rx = "none"
    /\ chan = <<>>
    /\ rxPc = "idle"
    /\ nsend = 0
    /\ accepted = <<>>
    /\ delivered = <<>>
    /\ upgraded = {}
    /\ last = Call("none")

MpscNext ==
    \/ MpscChannel
    \/ \E s \in Senders : MpscSend(s)
    \/ \E s, t \in Senders : MpscSenderClone(s, t)
    \/ \E s \in Senders : MpscSenderDrop(s)
    \/ \E s \in Senders : MpscDowngrade(s)
    \/ \E t \in Senders : MpscUpgrade(t)
    \/ MpscWeakDrop
    \/ MpscRecvCall
    \/ MpscRecvResolve
    \/ MpscTryRecv
    \/ MpscReceiverDrop

\* --------------------------------------------------------------- oneshot

\* tokio oneshot::Sender::send: the value is stored unless the receiver has
\* been dropped, in which case it is handed back.
TokioOneshotSendSilent(rxState, v) ==
    [ok |-> TRUE, slot |-> IF rxState = "dropped" THEN NoVal ELSE v, back |-> NoVal]
TokioOneshotSend(rxState, v) ==
    IF rxState = "dropped"
    THEN [ok |-> FALSE, slot |-> NoVal, back |-> v]
    ELSE [ok |-> TRUE, slot |-> v, back |-> NoVal]

\* poll of tokio oneshot::Receiver: the value once sent, RecvError once the
\* sender is gone without a value, Pending otherwise.
TokioOneshotPollHang(txState, slot) ==
    IF txState = "sent" THEN [tag |-> "Ok", val |-> slot]
    ELSE [tag |-> "Pending", val |-> NoVal]
TokioOneshotPoll(txState, slot) ==
    IF txState = "sent" THEN [tag |-> "Ok", val |-> slot]
    ELSE IF txState = "dropped" THEN [tag |-> "Err", val |-> NoVal]
    ELSE [tag |-> "Pending", val |-> NoVal]

\* TokioRuntime::oneshot()
Oneshot(c) ==
    /\ oTx[c] = "none"
    /\ oTx' = [oTx EXCEPT ![c] = "alive"]
    /\ oRx' = [oRx EXCEPT ![c] = "idle"]
    /\ UNCHANGED <<oSlot, oSend, oRecv, oCount>>
    /\ UNCHANGED <<mpscVars, watchVars, timeVars, taskVars>>

\* OneshotSender::send(self, t): consumes the sender
OneshotSend(c, v) ==
    /\ oTx[c] = "alive"
    /\ LET r == TokioOneshotSend(oRx[c], v)
       IN /\ oSlot' = [oSlot EXCEPT ![c] = r.slot]
          /\ oSend' = [oSend EXCEPT ![c] =
                          [tag |-> IF r.ok THEN "Ok" ELSE "Err", val |-> r.back,
                           arg |-> v, rxDropped |-> (oRx[c] = "dropped")]]
    /\ oTx' = [oTx EXCEPT ![c] = "sent"]
    /\ oCount' = [oCount EXCEPT ![c].sends = @ + 1]
    /\ UNCHANGED <<oRx, oRecv>>
    /\ UNCHANGED <<mpscVars, watchVars, timeVars, taskVars>>

\* drop of a sender that never sent
OneshotSenderDrop(c) ==
    /\ oTx[c] = "alive"
    /\ oTx' = [oTx EXCEPT ![c] = "dropped"]
    /\ UNCHANGED <<oRx, oSlot, oSend, oRecv, oCount>>
    /\ UNCHANGED <<mpscVars, watchVars, timeVars, taskVars>>

\* the receiver is awaited
OneshotAwait(c) ==
    /\ oRx[c] = "idle"
    /\ oRx' = [oRx EXCEPT ![c] = "pending"]
    /\ UNCHANGED <<oTx, oSlot, oSend, oRecv, oCount>>
    /\ UNCHANGED <<mpscVars, watchVars, timeVars, taskVars>>

\* the awaited receiver resolves, and is consumed by it
OneshotResolve(c) ==
    /\ oRx[c] = "pending"
    /\ LET p == TokioOneshotPoll(oTx[c], oSlot[c])
       IN /\ p.tag # "Pending"
          /\ oRecv' = [oRecv EXCEPT ![c] = p]
    /\ oRx' = [oRx EXCEPT ![c] = "done"]
    /\ oSlot' = [oSlot EXCEPT ![c] = NoVal]
    /\ oCount' = [oCount EXCEPT ![c].recvs = @ + 1]
    /\ UNCHANGED <<oTx, oSend>>
    /\ UNCHANGED <<mpscVars, watchVars, timeVars, taskVars>>

\* drop of the receiver, awaited or not, before it resolved
OneshotReceiverDrop(c) ==
    /\ oRx[c] \in {"idle", "pending"}
    /\ oRx' = [oRx EXCEPT ![c] = "dropped"]
    /\ oSlot' = [oSlot EXCEPT ![c] = NoVal]
    /\ UNCHANGED <<oTx, oSend, oRecv, oCount>>
    /\ UNCHANGED <<mpscVars, watchVars, timeVars, taskVars>>

OneshotInit ==
    /\ oTx = [c \in Oneshots |-> "none"]
    /\ oRx = [c \in Oneshots |-> "none"]
    /\ oSlot = [c \in Oneshots |-> NoVal]
    /\ oSend = [c \in Oneshots |->
                   [tag |-> "none", val |-> NoVal, arg |-> NoVal, rxDropped |-> FALSE]]
    /\ oRecv = [c \in Oneshots |-> [tag |-> "none", val |-> NoVal]]
    /\ oCount = [c \in Oneshots |-> [sends |-> 0, recvs |-> 0]]

OneshotNext ==
    \/ \E c \in Oneshots : Oneshot(c)
    \/ \E c \in Oneshots, v \in Values : OneshotSend(c, v)
    \/ \E c \in Oneshots : OneshotSenderDrop(c)
    \/ \E c \in Oneshots : OneshotAwait(c)
    \/ \E c \in Oneshots : OneshotResolve(c)
    \/ \E c \in Oneshots : OneshotReceiverDrop(c)

\* ----------------------------------------------------------------- watch

\* number of live receivers (tokio's ref_count_rx)
RxCount == Cardinality({r \in Receivers : wRx[r] = "alive"})

\* tokio watch::Sender::send: refused, with the value handed back, when no
\* receiver is left; otherwise the slot is replaced and the version advanced.
TokioWatchSendQuiet(nrx, value, version, v) ==
    IF nrx = 0
    THEN [ok |-> FALSE, value |-> value, version |-> version, e0 |-> v]
    ELSE [ok |-> TRUE, value |-> v, version |-> version, e0 |-> NoVal]
TokioWatchSendNoCheck(nrx, value, version, v) ==
    [ok |-> TRUE, value |-> v, version |-> version + 1, e0 |-> NoVal]
TokioWatchSendStoreOnErr(nrx, value, version, v) ==
    IF nrx = 0
    THEN [ok |-> FALSE, value |-> v, version |-> version + 1, e0 |-> v]
    ELSE [ok |-> TRUE, value |-> v, version |-> version + 1, e0 |-> NoVal]
TokioWatchSend(nrx, value, version, v) ==
    IF nrx = 0
    THEN [ok |-> FALSE, value |-> value, version |-> version, e0 |-> v]
    ELSE [ok |-> TRUE, value |-> v, version |-> version + 1, e0 |-> NoVal]

\* .map_err(|e| watch::SendError(e.0))
MapWatchSendError(r) ==
    IF r.ok THEN [tag |-> "Ok", val |-> NoVal]
            ELSE [tag |-> "Err", val |-> r.e0]

\* tokio watch::Sender::send_if_modified: the closure (which leaves nv in the
\* slot and returns modified) runs on the slot in place; the version is
\* advanced only if it returned true.
TokioSendIfModifiedAlways(value, version, nv, modified) ==
    [value |-> nv, version |-> version + 1, ret |-> modified]
TokioSendIfModified(value, version, nv, modified) ==
    [value |-> nv, version |-> IF modified THEN version + 1 ELSE version,
     ret |-> modified]

\* tokio watch::Receiver::changed, one poll: a version other than the one
\* marked seen is marked seen and reported; failing that, a closed channel
\* is an error; failing that, the receiver waits.
TokioChangedClosedFirst(seen, version, closed) ==
    IF closed THEN [tag |-> "RecvError", seen |-> seen]
    ELSE IF seen # version THEN [tag |-> "Ok", seen |-> version]
    ELSE [tag |-> "Pending", seen |-> seen]
TokioChangedNoMark(seen, version, closed) ==
    IF seen # version THEN [tag |-> "Ok", seen |-> seen]
    ELSE IF closed THEN [tag |-> "RecvError", seen |-> seen]
    ELSE [tag |-> "Pending", seen |-> seen]
TokioChanged(seen, version, closed) ==
    IF seen # version THEN [tag |-> "Ok", seen |-> version]
    ELSE IF closed THEN [tag |-> "RecvError", seen |-> seen]
    ELSE [tag |-> "Pending", seen |-> seen]

\* .map_err(|_| watch::RecvError(()))
MapRecvError(tag) == IF tag = "RecvError" THEN "Err" ELSE tag

\* self.borrow(): the value in the slot
BorrowWatched == wValue

\* what changed() on r does if polled now ("-" for a receiver that is not alive)
ChangedOutcome(r) ==
    IF wRx[r] = "alive"
    THEN MapRecvError(TokioChanged(wSeen[r], wVersion, wTx = "dropped").tag)
    ELSE "-"

\* has a notifying write happened since r last marked the slot seen
Unseen(r) == wObs[r] < wEpoch

NoBefore == [r \in Receivers |-> "-"]

\* a watch call that returns nothing to inspect
WCall(op) == [op |-> op, rcv |-> 0, tag |-> "-", arg |-> NoVal, val |-> NoVal,
              ret |-> FALSE, before |-> NoBefore, prev |-> 0, obs |-> 0,
              closed |-> FALSE, unseen |-> FALSE]

\* TokioWatch::channel(init): the sender and one receiver that has seen init
WatchChannelUnseen(init) ==
    /\ wTx = "none"
    /\ wTx' = "alive"
    /\ wValue' = init
    /\ wLatest' = init
    /\ wVersion' = wVersion + 1
    /\ wRx' = [wRx EXCEPT ![1] = "alive"]
    /\ wLast' = [WCall("channel") EXCEPT !.arg = init]
    /\ UNCHANGED <<wSeen, wPc, wEpoch, wObs>>
    /\ UNCHANGED <<mpscVars, oneshotVars, timeVars, taskVars>>
WatchChannel(init) ==
    /\ wTx = "none"
    /\ wTx' = "alive"
    /\ wValue' = init
    /\ wLatest' = init
    /\ wRx' = [wRx EXCEPT ![1] = "alive"]
    /\ wLast' = [WCall("channel") EXCEPT !.arg = init]
    /\ UNCHANGED <<wVersion, wSeen, wPc, wEpoch, wObs>>
    /\ UNCHANGED <<mpscVars, oneshotVars, timeVars, taskVars>>

\* WatchSender::send(&self, value)
WatchSend(v) ==
    /\ wTx = "alive"
    /\ wEpoch < MaxWrites
    /\ LET r == TokioWatchSend(RxCount, wValue, wVersion, v)
           res == MapWatchSendError(r)
       IN /\ wValue' = r.value
          /\ wVersion' = r.version
          /\ wEpoch' = IF res.tag = "Ok" THEN wEpoch + 1 ELSE wEpoch
          /\ wLatest' = IF res.tag = "Ok" THEN v ELSE wLatest
          /\ wLast' = [WCall("send") EXCEPT !.tag = res.tag, !.arg = v,
                          !.val = res.val,
                          !.before = [x \in Receivers |-> ChangedOutcome(x)]]
    /\ UNCHANGED <<wTx, wRx, wSeen, wPc, wObs>>
    /\ UNCHANGED <<mpscVars, oneshotVars, timeVars, taskVars>>

\* WatchSender::send_if_modified(&self, modify), for a closure that leaves
\* nv in the slot and returns modified
WatchSendIfModified(nv, modified) ==
    /\ wTx = "alive"
    /\ wEpoch < MaxWrites
    /\ LET r == TokioSendIfModified(wValue, wVersion, nv, modified)
       IN /\ wValue' = r.value
          /\ wVersion' = r.version
          /\ wEpoch' = IF modified THEN wEpoch + 1 ELSE wEpoch
          /\ wLatest' = nv
          /\ wLast' = [WCall("send_if_modified") EXCEPT
                          !.tag = IF r.ret THEN "true" ELSE "false",
                          !.arg = nv, !.val = wValue, !.ret = modified,
                          !.before = [x \in Receivers |-> ChangedOutcome(x)]]
    /\ UNCHANGED <<wTx, wRx, wSeen, wPc, wObs>>
    /\ UNCHANGED <<mpscVars, oneshotVars, timeVars, taskVars>>

\* WatchSender::borrow_watched(&self)
WatchSenderBorrow ==
    /\ wTx = "alive"
    /\ wLast' = [WCall("borrow") EXCEPT !.val = BorrowWatched,
                    !.before = [x \in Receivers |-> ChangedOutcome(x)]]
    /\ UNCHANGED <<wTx, wValue, wVersion, wRx, wSeen, wPc, wEpoch, wObs, wLatest>>
    /\ UNCHANGED <<mpscVars, oneshotVars, timeVars, taskVars>>

\* drop of the sender: the channel is closed
WatchSenderDrop ==
    /\ wTx = "alive"
    /\ wTx' = "dropped"
    /\ wLast' = WCall("tx_drop")
    /\ UNCHANGED <<wValue, wVersion, wRx, wSeen, wPc, wEpoch, wObs, wLatest>>
    /\ UNCHANGED <<mpscVars, oneshotVars, timeVars, taskVars>>

\* watch::Receiver::clone: the new receiver has seen what the old one has
WatchReceiverClone(r, t) ==
    /\ wRx[r] = "alive"
    /\ wPc[r] = "idle"
    /\ wRx[t] = "none"
    /\ wRx' = [wRx EXCEPT ![t] = "alive"]
    /\ wSeen' = [wSeen EXCEPT ![t] = wSeen[r]]
    /\ wObs' = [wObs EXCEPT ![t] = wObs[r]]
    /\ wLast' = WCall("clone")
    /\ UNCHANGED <<wTx, wValue, wVersion, wPc, wEpoch, wLatest>>
    /\ UNCHANGED <<mpscVars, oneshotVars, timeVars, taskVars>>

\* WatchReceiver::changed(&mut self): the future is created and polled; it
\* stays pending until WatchChangedResolve.
WatchChangedCall(r) ==
    /\ wRx[r] = "alive"
    /\ wPc[r] = "idle"
    /\ wPc' = [wPc EXCEPT ![r] = "pending"]
    /\ wLast' = WCall("changed_call")
    /\ UNCHANGED <<wTx, wValue, wVersion, wRx, wSeen, wEpoch, wObs, wLatest>>
    /\ UNCHANGED <<mpscVars, oneshotVars, timeVars, taskVars>>

\* self.changed().await resolves, Ok(()) or Err(RecvError(()))
WatchChangedResolve(r) ==
    /\ wRx[r] = "alive"
    /\ wPc[r] = "pending"
    /\ LET p == TokioChanged(wSeen[r], wVersion, wTx = "dropped")
           res == MapRecvError(p.tag)
       IN /\ res # "Pending"
          /\ wSeen' = [wSeen EXCEPT ![r] = p.seen]
          /\ wObs' = [wObs EXCEPT ![r] = IF res = "Ok" THEN wEpoch ELSE @]
          /\ wLast' = [WCall("changed") EXCEPT !.rcv = r, !.tag = res,
                          !.val = BorrowWatched, !.prev = wObs[r], !.obs = wEpoch,
                          !.closed = (wTx = "dropped"), !.unseen = Unseen(r)]
    /\ wPc' = [wPc EXCEPT ![r] = "idle"]
    /\ UNCHANGED <<wTx, wValue, wVersion, wRx, wEpoch, wLatest>>
    /\ UNCHANGED <<mpscVars, oneshotVars, timeVars, taskVars>>

\* WatchReceiver::borrow_watched(&self)
WatchReceiverBorrowAndUpdate(r) ==
    /\ wRx[r] = "alive"
    /\ wPc[r] = "idle"
    /\ wSeen' = [wSeen EXCEPT ![r] = wVersion]
    /\ wLast' = [WCall("borrow") EXCEPT !.rcv = r, !.val = BorrowWatched,
                    !.before = [x \in Receivers |-> ChangedOutcome(x)]]
    /\ UNCHANGED <<wTx, wValue, wVersion, wRx, wPc, wEpoch, wObs, wLatest>>
    /\ UNCHANGED <<mpscVars, oneshotVars, timeVars, taskVars>>
WatchReceiverBorrow(r) ==
    /\ wRx[r] = "alive"
    /\ wPc[r] = "idle"
    /\ wLast' = [WCall("borrow") EXCEPT !.rcv = r, !.val = BorrowWatched,
                    !.before = [x \in Receivers |-> ChangedOutcome(x)]]
    /\ UNCHANGED <<wTx, wValue, wVersion, wRx, wSeen, wPc, wEpoch, wObs, wLatest>>
    /\ UNCHANGED <<mpscVars, oneshotVars, timeVars, taskVars>>

\* drop of a receiver, a pending changed() with it
WatchReceiverDrop(r) ==
    /\ wRx[r] = "alive"
    /\ wRx' = [wRx EXCEPT ![r] = "dropped"]
    /\ wPc' = [wPc EXCEPT ![r] = "idle"]
    /\ wLast' = WCall("rx_drop")
    /\ UNCHANGED <<wTx, wValue, wVersion, wSeen, wEpoch, wObs, wLatest>>
    /\ UNCHANGED <<mpscVars, oneshotVars, timeVars, taskVars>>

WatchInit ==
    /\ wTx = "none"
    /\ wValue = NoVal
    /\ wVersion = 0
    /\ wRx = [r \in Receivers |-> "none"]
    /\ wSeen = [r \in Receivers |-> 0]
    /\ wPc = [r \in Receivers |-> "idle"]
    /\ wEpoch = 0
    /\ wObs = [r \in Receivers |-> 0]
    /\ wLatest = NoVal
    /\ wLast = WCall("none")

WatchNext ==
    \/ \E init \in Values : WatchChannel(init)
    \/ \E v \in Values : WatchSend(v)
    \/ \E nv \in Values, modified \in BOOLEAN : WatchSendIfModified(nv, modified)
    \/ WatchSenderBorrow
    \/ WatchSenderDrop
    \/ \E r, t \in Receivers : WatchReceiverClone(r, t)
    \/ \E r \in Receivers : WatchChangedCall(r)
    \/ \E r \in Receivers : WatchChangedResolve(r)
    \/ \E r \in Receivers : WatchReceiverBorrow(r)
    \/ \E r \in Receivers : WatchReceiverDrop(r)

\* ------------------------------------------------------------------ time

\* the clock advances
Tick ==
    /\ now < MaxTime
    /\ now' = now + 1
    /\ UNCHANGED <<sleeps, slOrder, tmo, tmoLog>>
    /\ UNCHANGED <<mpscVars, oneshotVars, watchVars, taskVars>>

\* tokio::time::sleep(duration): the deadline is now + duration
SleepDeadline(t, duration) == t + duration

\* poll of tokio::time::Sleep: ready once the clock has reached the deadline
TokioSleepPollEarly(t, deadline) == t + 1 >= deadline
TokioSleepPoll(t, deadline) == t >= deadline

\* TokioRuntime::sleep(duration)
Sleep(s, duration) ==
    /\ sleeps[s].st = "none"
    /\ sleeps' = [sleeps EXCEPT ![s] =
                     [st |-> "pending", deadline |-> SleepDeadline(now, duration), at |-> 0]]
    /\ UNCHANGED <<now, slOrder, tmo, tmoLog>>
    /\ UNCHANGED <<mpscVars, oneshotVars, watchVars, taskVars>>

\* TokioRuntime::sleep_until(deadline)
SleepUntil(s, deadline) ==
    /\ sleeps[s].st = "none"
    /\ sleeps' = [sleeps EXCEPT ![s] = [st |-> "pending", deadline |-> deadline, at |-> 0]]
    /\ UNCHANGED <<now, slOrder, tmo, tmoLog>>
    /\ UNCHANGED <<mpscVars, oneshotVars, watchVars, taskVars>>

\* the awaited Sleep is polled by its task and resolves
SleepResolve(s) ==
    /\ sleeps[s].st = "pending"
    /\ TokioSleepPoll(now, sleeps[s].deadline)
    /\ sleeps' = [sleeps EXCEPT ![s].st = "done", ![s].at = now]
    /\ slOrder' = Append(slOrder, s)
    /\ UNCHANGED <<now, tmo, tmoLog>>
    /\ UNCHANGED <<mpscVars, oneshotVars, watchVars, taskVars>>

NoTime == MaxTime + 1

\* tokio::time::timeout(duration, future): the deadline is now + duration
TimeoutDeadline(t, duration) == t + duration

\* poll of tokio::time::Timeout: the wrapped future is polled first and its
\* value returned if it is ready; only then is the deadline looked at.
TokioTimeoutPollDeadlineFirst(ready, out, t, deadline) ==
    IF t >= deadline THEN [tag |-> "Elapsed", val |-> NoVal]
    ELSE IF ready THEN [tag |-> "Ok", val |-> out]
    ELSE [tag |-> "Pending", val |-> NoVal]
TokioTimeoutPoll(ready, out, t, deadline) ==
    IF ready THEN [tag |-> "Ok", val |-> out]
    ELSE IF t >= deadline THEN [tag |-> "Elapsed", val |-> NoVal]
    ELSE [tag |-> "Pending", val |-> NoVal]

NoTimeout == [st |-> "none", deadline |-> 0, out |-> NoVal, readyAt |-> NoTime,
              at |-> 0, val |-> NoVal]

\* TokioRuntime::timeout(duration, future), for a future whose output is out
Timeout(duration, out) ==
    /\ tmo.st = "none"
    /\ tmo' = [NoTimeout EXCEPT !.st = "pending", !.out = out,
                                !.deadline = TimeoutDeadline(now, duration)]
    /\ UNCHANGED <<now, sleeps, slOrder, tmoLog>>
    /\ UNCHANGED <<mpscVars, oneshotVars, watchVars, taskVars>>

\* TokioRuntime::timeout_at(deadline, future)
TimeoutAt(deadline, out) ==
    /\ tmo.st = "none"
    /\ tmo' = [NoTimeout EXCEPT !.st = "pending", !.out = out, !.deadline = deadline]
    /\ UNCHANGED <<now, sleeps, slOrder, tmoLog>>
    /\ UNCHANGED <<mpscVars, oneshotVars, watchVars, taskVars>>

\* what the wrapped future waits for happens: its next poll finds it ready
OpBecomesReady ==
    /\ tmo.st = "pending"
    /\ tmo.readyAt = NoTime
    /\ tmo' = [tmo EXCEPT !.readyAt = now]
    /\ UNCHANGED <<now, sleeps, slOrder, tmoLog>>
    /\ UNCHANGED <<mpscVars, oneshotVars, watchVars, taskVars>>

\* the awaited Timeout is polled (and with it the wrapped future) and
\* resolves; the Timeout and the future in it are consumed by that.
TimeoutResolve ==
    /\ tmo.st = "pending"
    /\ LET p == TokioTimeoutPoll(tmo.readyAt # NoTime, tmo.out, now, tmo.deadline)
       IN /\ p.tag # "Pending"
          /\ tmo' = [tmo EXCEPT !.st = p.tag, !.at = now, !.val = p.val]
          /\ tmoLog' = Append(tmoLog, p.tag)
    /\ UNCHANGED <<now, sleeps, slOrder>>
    /\ UNCHANGED <<mpscVars, oneshotVars, watchVars, taskVars>>

TimeInit ==
    /\ now = 0
    /\ sleeps = [s \in Sleeps |-> [st |-> "none", deadline |-> 0, at |-> 0]]
    /\ slOrder = <<>>
    /\ tmo = NoTimeout
    /\ tmoLog = <<>>

SleepNext ==
    \/ Tick
    \/ \E s \in Sleeps, d \in 0 .. MaxTime : now + d <= MaxTime /\ Sleep(s, d)
    \/ \E s \in Sleeps, i \in 0 .. MaxTime : SleepUntil(s, i)
    \/ \E s \in Sleeps : SleepResolve(s)

TimeoutNext ==
    \/ Tick
    \/ \E d \in 0 .. MaxTime, v \in Values : now + d <= MaxTime /\ Timeout(d, v)
    \/ \E i \in 0 .. MaxTime, v \in Values : TimeoutAt(i, v)
    \/ OpBecomesReady
    \/ TimeoutResolve

\* ----------------------------------------------------------------- spawn

\* a unit of work that has not been spawned
NoTask == [st |-> "none", steps |-> 0, panics |-> FALSE, out |-> NoVal,
           done |-> 0, h |-> "none", res |-> "-", val |-> NoVal,
           isPanic |-> FALSE, joins |-> 0]

\* drop of a tokio JoinHandle: the task is detached, not cancelled
TokioJoinHandleDropAborts(st) == IF st = "running" THEN "cancelled" ELSE st
TokioJoinHandleDrop(st) == st

\* tokio JoinHandle, one poll: the output of a finished task, a JoinError
\* for one that panicked or was cancelled, pending otherwise
TokioJoinPoll(st, out) ==
    IF st = "finished" THEN [tag |-> "Ok", val |-> out, err |-> "-"]
    ELSE IF st = "panicked" THEN [tag |-> "Err", val |-> NoVal, err |-> "panic"]
    ELSE IF st = "cancelled" THEN [tag |-> "Err", val |-> NoVal, err |-> "cancelled"]
    ELSE [tag |-> "Pending", val |-> NoVal, err |-> "-"]

\* TokioRuntime::is_panic(join_error): join_error.is_panic()
IsPanic(err) == err = "panic"

\* TokioRuntime::spawn(future): the future takes n steps, each with an
\* effect, and then returns out or panics; the caller holds the JoinHandle
Spawn(t, n, panics, out) ==
    /\ task[t].st = "none"
    /\ task' = [task EXCEPT ![t] = [NoTask EXCEPT !.st = "running", !.steps = n,
                                        !.panics = panics, !.out = out, !.h = "held"]]
    /\ UNCHANGED <<mpscVars, oneshotVars, watchVars, timeVars>>

\* the runtime polls the task: it takes its next step
TaskStep(t) ==
    /\ task[t].st = "running"
    /\ task[t].done < task[t].steps
    /\ task' = [task EXCEPT ![t].done = @ + 1]
    /\ UNCHANGED <<mpscVars, oneshotVars, watchVars, timeVars>>

\* the runtime polls the task: the future returns its output, or panics
TaskFinish(t) ==
    /\ task[t].st = "running"
    /\ task[t].done = task[t].steps
    /\ task' = [task EXCEPT ![t].st = IF task[t].panics THEN "panicked" ELSE "finished"]
    /\ UNCHANGED <<mpscVars, oneshotVars, watchVars, timeVars>>

\* the JoinHandle is dropped, awaited or not
JoinHandleDrop(t) ==
    /\ task[t].h \in {"held", "awaiting"}
    /\ task' = [task EXCEPT ![t].h = "dropped",
                            ![t].st = TokioJoinHandleDrop(task[t].st)]
    /\ UNCHANGED <<mpscVars, oneshotVars, watchVars, timeVars>>

\* the JoinHandle is awaited; it stays pending until JoinResolve
JoinAwait(t) ==
    /\ task[t].h = "held"
    /\ task' = [task EXCEPT ![t].h = "awaiting"]
    /\ UNCHANGED <<mpscVars, oneshotVars, watchVars, timeVars>>

\* handle.await resolves, Ok(output) or Err(JoinError), and consumes the handle
JoinResolve(t) ==
    /\ task[t].h = "awaiting"
    /\ LET p == TokioJoinPoll(task[t].st, task[t].out)
       IN /\ p.tag # "Pending"
          /\ task' = [task EXCEPT ![t].h = "joined", ![t].res = p.tag,
                                  ![t].val = p.val,
                                  ![t].isPanic = (p.tag = "Err" /\ IsPanic(p.err)),
                                  ![t].joins = @ + 1]
    /\ UNCHANGED <<mpscVars, oneshotVars, watchVars, timeVars>>

TaskInit ==
    task = [t \in Tasks |-> NoTask]

TaskNext ==
    \/ \E t \in Tasks, n \in 0 .. MaxSteps, panics \in BOOLEAN, out \in Values :
           Spawn(t, n, panics, out)
    \/ \E t \in Tasks : TaskStep(t)
    \/ \E t \in Tasks : TaskFinish(t)
    \/ \E t \in Tasks : JoinHandleDrop(t)
    \/ \E t \in Tasks : JoinAwait(t)
    \/ \E t \in Tasks : JoinResolve(t)

\* ------------------------------------------------------- specifications

Init == MpscInit /\ OneshotInit /\ WatchInit /\ TimeInit /\ TaskInit

Next == MpscNext \/ OneshotNext \/ WatchNext \/ SleepNext \/ TimeoutNext \/ TaskNext

Spec == Init /\ [][Next]_vars

MpscSpec == Init /\ [][MpscNext]_vars

\* the receiving task keeps awaiting recv(), and a ready recv() is woken
MpscLive == MpscSpec /\ WF_vars(MpscRecvCall) /\ WF_vars(MpscRecvResolve)

OneshotSpec == Init /\ [][OneshotNext]_vars

\* an awaited receiver whose sender has sent or gone is woken and polled
OneshotLive == OneshotSpec /\ \A c \in Oneshots : WF_vars(OneshotResolve(c))

WatchSpec == Init /\ [][WatchNext]_vars

\* a receiver awaiting changed() is woken by a write and by the sender's drop
WatchLive == WatchSpec /\ \A r \in Receivers : WF_vars(WatchChangedResolve(r))

SleepSpec == Init /\ [][SleepNext]_vars

\* time passes, and a task awaiting a Sleep is woken once it has elapsed
SleepLive == SleepSpec /\ WF_vars(Tick) /\ \A s \in Sleeps : WF_vars(SleepResolve(s))

TimeoutSpec == Init /\ [][TimeoutNext]_vars

\* time passes, and a task awaiting a Timeout is woken by the wrapped
\* future and by the timer
TimeoutLive == TimeoutSpec /\ WF_vars(Tick) /\ WF_vars(TimeoutResolve)

TaskSpec == Init /\ [][TaskNext]_vars

\* the runtime keeps polling a spawned task, and wakes the task awaiting a
\* JoinHandle once the spawned task has ended
TaskLive ==
    TaskSpec /\ \A t \in Tasks : /\ WF_vars(TaskStep(t))
                                 /\ WF_vars(TaskFinish(t))
                                 /\ WF_vars(JoinResolve(t))

\* ----------------------------------------------------------- properties

\* the messages of s in a sequence of messages, in order
OfSender(q, s) == SelectSeq(q, LAMBDA m : m.from = s)

IsPrefix(p, q) == Len(p) <= Len(q) /\ \A i \in 1 .. Len(p) : p[i] = q[i]

\* C1: for every sender, the messages the receiver has obtained from recv and
\* try_recv, restricted to that sender, are exactly the first messages that
\* sender had accepted, in its send order: none overtakes an earlier one.
C1_PerSenderFifo ==
    \A s \in Senders :
        /\ IsPrefix(OfSender(delivered, s), OfSender(accepted, s))
        /\ \A i, j \in 1 .. Len(OfSender(delivered, s)) :
               i < j => OfSender(delivered, s)[i].seq < OfSender(delivered, s)[j].seq

\* two messages of one sender were received around a message of another one
C1_Witness ==
    /\ Len(delivered) >= 3
    /\ delivered[1].from = delivered[3].from
    /\ delivered[1].from # delivered[2].from

\* C2 (safety half): recv returns None only when no strong sender is left
\* and nothing is queued, and by then every accepted message was returned,
\* in the order of acceptance.
C2_NoneOnlyAfterDrain ==
    (last.op = "recv" /\ last.tag = "None") =>
        (last.strong = 0 /\ last.qlen = 0 /\ delivered = accepted)

\* C2: the safety half always holds, and a recv pending with no strong
\* sender left leads to a recv that returns None (unless the receiver is
\* dropped first), whatever weak senders are outstanding.
C2_ClosedAfterDrain ==
    /\ [] C2_NoneOnlyAfterDrain
    /\ (rxPc = "pending" /\ StrongCount = 0)
           ~> ((last.op = "recv" /\ last.tag = "None") \/ rx = "dropped")

\* recv returned None after two messages were drained, a weak sender alive
C2_Witness ==
    /\ last.op = "recv" /\ last.tag = "None"
    /\ weak = "alive"
    /\ Len(delivered) >= 2

\* C3: send returns Err exactly when the receiver had been dropped, the
\* error carries the message passed to that call, and with the receiver
\* alive send returns Ok whatever the queue length.
C3_SendErrOnlyReceiverGone ==
    last.op = "send" =>
        /\ last.tag \in {"Ok", "Err"}
        /\ (last.tag = "Err") <=> ~last.rxAlive
        /\ last.tag = "Err" => (last.val = last.arg /\ last.arg # NoMsg)

\* a send failed and returned its message
C3_Witness ==
    /\ last.op = "send" /\ last.tag = "Err" /\ last.val = last.arg
    /\ rx = "dropped"
    /\ Len(accepted) >= 1

NoDuplicates(q) == \A i, j \in 1 .. Len(q) : i # j => q[i] # q[j]

\* C4 (safety half): nothing is received twice or out of thin air, and while
\* the receiver is alive the accepted messages are exactly the received ones
\* followed by the queued ones.
C4_NoLossNoDup ==
    /\ NoDuplicates(delivered)
    /\ IsPrefix(delivered, accepted)
    /\ rx = "alive" => delivered \o chan = accepted

\* C4: the safety half always holds, and the n-th accepted message is
\* eventually received by a receiver that stays alive and keeps calling recv.
C4_ExactlyOnce ==
    /\ [] C4_NoLossNoDup
    /\ \A n \in 1 .. (MaxSends + 1) :
           (Len(accepted) >= n) ~> (Len(delivered) >= n \/ rx = "dropped")

\* three accepted messages of two senders were all received
C4_Witness ==
    /\ rx = "alive"
    /\ Len(delivered) >= 3
    /\ delivered = accepted
    /\ \E i, j \in 1 .. Len(delivered) : delivered[i].from # delivered[j].from

\* C5 (safety half): a receiver resolves with the value that was sent, or
\* with an error when the sender was dropped without sending, at most once;
\* a sender sends at most once.
C5_RoundTrip ==
    \A c \in Oneshots :
        /\ oRecv[c].tag = "Ok" =>
               (oSend[c].tag = "Ok" /\ oRecv[c].val = oSend[c].arg /\ oTx[c] = "sent")
        /\ oRecv[c].tag = "Err" => (oTx[c] = "dropped" /\ oSend[c].tag = "none")
        /\ oCount[c].recvs <= 1 /\ oCount[c].sends <= 1
        /\ (oRx[c] = "done") <=> (oCount[c].recvs = 1 /\ oRecv[c].tag \in {"Ok", "Err"})

\* C5: the safety half always holds, and an awaited receiver whose sender
\* has sent or been dropped does not stay pending.
C5_OneshotResolves ==
    /\ [] C5_RoundTrip
    /\ \A c \in Oneshots :
           (oRx[c] = "pending" /\ oTx[c] \in {"sent", "dropped"}) ~> (oRx[c] # "pending")

\* one receiver resolved with the value sent, another with the error
C5_Witness ==
    \E c, d \in Oneshots :
        /\ oRecv[c].tag = "Ok" /\ oRecv[c].val = "b"
        /\ oRecv[d].tag = "Err"

\* C6: a send made after the receiver was dropped returns Err with the value
\* passed to it, and a send returns Ok only if the receiver had not been
\* dropped when it was called.
C6_SendReturnsValue ==
    \A c \in Oneshots :
        /\ oSend[c].tag = "Err" => (oSend[c].rxDropped /\ oSend[c].val = oSend[c].arg)
        /\ oSend[c].tag = "Ok" => ~oSend[c].rxDropped
        /\ oTx[c] = "sent" => oSend[c].tag \in {"Ok", "Err"}

\* a send failed on a dropped receiver and returned its value
C6_Witness ==
    \E c \in Oneshots :
        oSend[c].tag = "Err" /\ oSend[c].val = "a" /\ oRx[c] = "dropped"

\* C7: right after a successful send(V) borrow_watched returns V and changed()
\* on every live receiver (those that had seen the prior value included)
\* resolves with Ok; and at any time, a receiver for which a notifying write
\* happened since it last marked the slot seen has its changed() resolve Ok.
C7_SendNotifiesAll ==
    /\ (wLast.op = "send" /\ wLast.tag = "Ok") =>
           /\ BorrowWatched = wLast.arg
           /\ \A r \in Receivers : wRx[r] = "alive" => ChangedOutcome(r) = "Ok"
    /\ \A r \in Receivers : (wRx[r] = "alive" /\ Unseen(r)) => ChangedOutcome(r) = "Ok"

\* a send succeeded while two receivers had both seen the prior value
C7_Witness ==
    /\ wLast.op = "send" /\ wLast.tag = "Ok"
    /\ \E r, t \in Receivers :
           /\ r # t
           /\ wRx[r] = "alive" /\ wRx[t] = "alive"
           /\ wLast.before[r] = "Pending" /\ wLast.before[t] = "Pending"

\* C8: send_if_modified returns what the closure returned and leaves the
\* closure's value in the slot; if the closure returned false every live
\* receiver's changed() does what it did before the call (a receiver that
\* was waiting still waits); if it returned true every live receiver's
\* changed() resolves with Ok.
C8_SendIfModified ==
    wLast.op = "send_if_modified" =>
        /\ wLast.tag = (IF wLast.ret THEN "true" ELSE "false")
        /\ BorrowWatched = wLast.arg
        /\ ~wLast.ret =>
               \A r \in Receivers : wRx[r] = "alive" => ChangedOutcome(r) = wLast.before[r]
        /\ wLast.ret =>
               \A r \in Receivers : wRx[r] = "alive" => ChangedOutcome(r) = "Ok"

\* the closure changed the value and returned false while a receiver waited
C8_Witness ==
    /\ wLast.op = "send_if_modified" /\ ~wLast.ret
    /\ wLast.arg # wLast.val
    /\ BorrowWatched = wLast.arg
    /\ \E r \in Receivers :
           wRx[r] = "alive" /\ wPc[r] = "pending" /\ ChangedOutcome(r) = "Pending"

\* C9 (safety half): changed() returns Err only when the sender is gone and
\* no notifying write is unobserved by that receiver; with one unobserved
\* it returns Ok, sender gone or not.
C9_ErrOnlyClosedAndSeen ==
    wLast.op = "changed" =>
        /\ wLast.tag \in {"Ok", "Err"}
        /\ wLast.tag = "Err" => (wLast.closed /\ ~wLast.unseen)
        /\ wLast.unseen => wLast.tag = "Ok"

\* C9: the safety half always holds, and a changed() pending with the sender
\* dropped and nothing unobserved resolves with Err (unless that receiver
\* is dropped first).
C9_ChangedAfterSenderDrop ==
    /\ [] C9_ErrOnlyClosedAndSeen
    /\ \A r \in Receivers :
           (wPc[r] = "pending" /\ wTx = "dropped" /\ ~Unseen(r))
               ~> ((wLast.op = "changed" /\ wLast.rcv = r /\ wLast.tag = "Err")
                   \/ wRx[r] = "dropped")

\* changed() returned Ok after the sender was dropped: the value sent before
\* the drop had not been observed
C9_Witness ==
    /\ wLast.op = "changed" /\ wLast.tag = "Ok" /\ wLast.closed
    /\ wTx = "dropped"

\* C10: a changed() that returns Ok observes a slot state strictly newer than
\* the one that receiver observed before and shows the latest value written;
\* once it has returned Ok, the next changed() of that receiver does not
\* return Ok again until another notifying write, however many writes the
\* first one covered.
C10_MonotonicCoalesced ==
    /\ (wLast.op = "changed" /\ wLast.tag = "Ok") =>
           (wLast.obs > wLast.prev /\ wLast.val = wLatest)
    /\ \A r \in Receivers : (wRx[r] = "alive" /\ ~Unseen(r)) => ChangedOutcome(r) # "Ok"

\* one changed() covered two sends, and the next one waits
C10_Witness ==
    /\ wLast.op = "changed" /\ wLast.tag = "Ok"
    /\ wLast.obs >= wLast.prev + 2
    /\ wLast.prev >= 1
    /\ ChangedOutcome(wLast.rcv) = "Pending"


\* C11: watch send returns Err exactly when no receiver is alive at the call,
\* and the SendError then carries the value passed to it; with a receiver
\* alive it returns Ok.
C11_WatchSendErr ==
    wLast.op = "send" =>
        /\ wLast.tag \in {"Ok", "Err"}
        /\ (wLast.tag = "Err") <=> (\A r \in Receivers : wLast.before[r] = "-")
        /\ wLast.tag = "Err" => (wLast.val = wLast.arg /\ wLast.arg \in Values)
        /\ wLast.tag = "Ok" => wLast.val = NoVal

\* a send failed after every receiver was dropped and returned its value
C11_Witness ==
    /\ wLast.op = "send" /\ wLast.tag = "Err" /\ wLast.val = "b"
    /\ \E r \in Receivers : wRx[r] = "dropped"
    /\ \A r \in Receivers : wRx[r] # "alive"


TimeoutDone == tmo.st \in {"Ok", "Elapsed"}

\* C12 as stated: the result is the operation's if the operation becomes
\* ready before the deadline, and the elapsed-error if the deadline passes
\* before the operation becomes ready.
C12_Original ==
    TimeoutDone =>
        /\ tmo.readyAt < tmo.deadline => tmo.st = "Ok"
        /\ (tmo.readyAt = NoTime \/ tmo.readyAt > tmo.deadline) => tmo.st = "Elapsed"

\* C12 (safety half, amended): at most one outcome; it is the operation's
\* result exactly when the operation was ready at the resolving poll, even
\* if the deadline had passed by then, and the elapsed-error only when the
\* deadline had passed and the operation was not ready; after the outcome
\* the Timeout, and the operation in it, is not polled again.
C12_OutcomeAtPoll ==
    /\ Len(tmoLog) <= 1
    /\ TimeoutDone <=> Len(tmoLog) = 1
    /\ tmo.st = "Ok" => (tmo.readyAt <= tmo.at /\ tmo.val = tmo.out /\ tmo.out \in Values)
    /\ tmo.st = "Elapsed" => (tmo.deadline <= tmo.at /\ tmo.readyAt = NoTime)
    /\ TimeoutDone => ~ENABLED TimeoutResolve

\* C12 (amended): the safety half always holds, and a pending Timeout
\* produces its outcome.
C12_OneOutcome ==
    /\ [] C12_OutcomeAtPoll
    /\ (tmo.st = "pending") ~> TimeoutDone

\* the operation became ready after the deadline and its result was returned
C12_Witness ==
    /\ tmo.st = "Ok" /\ tmo.val = "b"
    /\ tmo.deadline < tmo.readyAt
    /\ tmo.readyAt < tmo.at


\* no sleep has resolved before its deadline, and none has resolved twice
NeverEarlyOnce ==
    /\ \A s \in Sleeps : sleeps[s].st = "done" => sleeps[s].at >= sleeps[s].deadline
    /\ \A i, j \in 1 .. Len(slOrder) : i # j => slOrder[i] # slOrder[j]
    /\ \A s \in Sleeps : (sleeps[s].st = "done") <=> (\E i \in 1 .. Len(slOrder) : slOrder[i] = s)

\* C13 as stated: no sleep resolves before its deadline or twice, and sleeps
\* with different deadlines resolve in the order of their deadlines.
C13_Original ==
    /\ NeverEarlyOnce
    /\ \A i, j \in 1 .. Len(slOrder) :
           i < j => sleeps[slOrder[i]].deadline <= sleeps[slOrder[j]].deadline

\* C13 (amended): with any number of sleeps outstanding, none resolves
\* before its deadline, none resolves twice, and a pending one resolves.
C13_NeverEarly ==
    /\ [] NeverEarlyOnce
    /\ \A s \in Sleeps : (sleeps[s].st = "pending") ~> (sleeps[s].st = "done")

\* two sleeps were outstanding together; the one with the later deadline
\* resolved first, both at or after their deadlines
C13_Witness ==
    /\ Len(slOrder) = 2
    /\ sleeps[slOrder[1]].deadline > sleeps[slOrder[2]].deadline
    /\ sleeps[slOrder[2]].deadline >= 1
    /\ sleeps[slOrder[1]].at > sleeps[slOrder[1]].deadline


\* C14: upgrade() returns None exactly when no strong sender is left, and
\* otherwise a live strong sender; a send through that sender succeeds while
\* the receiver lives and queues exactly the message passed, and what the
\* receiver gets is what was sent, in order.
C14_UpgradeRoundTrip ==
    /\ last.op = "upgrade" => ((last.tag = "None") <=> (last.strong = 0))
    /\ \A t \in upgraded : tx[t] = "alive"
    /\ (last.op = "upgrade" /\ last.tag = "Some") => upgraded # {}
    /\ (last.op = "send" /\ last.arg.from \in upgraded) =>
           /\ (last.tag = "Ok") <=> last.rxAlive
           /\ last.tag = "Ok" => /\ chan # <<>>
                                 /\ chan[Len(chan)] = last.arg
    /\ rx = "alive" => accepted = delivered \o chan
    /\ IsPrefix(delivered, accepted)

\* the receiver got one message sent through the original sender and one
\* sent through a sender obtained by downgrade() then upgrade()
C14_Witness ==
    /\ \E i \in 1 .. Len(delivered) : delivered[i].from \in upgraded
    /\ \E j \in 1 .. Len(delivered) : delivered[j].from = 1
    /\ 1 \notin upgraded


\* C16: what try_recv returns is fixed by the channel state it was called in:
\* the head of the queue whenever a message is queued (even with every
\* sender gone), Empty exactly when nothing is queued and a strong sender
\* is left, Disconnected exactly when nothing is queued and none is left;
\* it never leaves a recv pending.
C16_TryRecvByState ==
    last.op = "try_recv" =>
        /\ last.qlen > 0 => /\ last.tag = "Ok"
                            /\ Len(chan) = last.qlen - 1
                            /\ delivered # <<>>
                            /\ last.val = delivered[Len(delivered)]
                            /\ last.val = accepted[Len(delivered)]
        /\ (last.tag = "Empty") <=> (last.qlen = 0 /\ last.strong > 0)
        /\ (last.tag = "Disconnected") <=> (last.qlen = 0 /\ last.strong = 0)
        /\ last.tag \in {"Ok", "Empty", "Disconnected"}
        /\ rxPc = "idle"

\* try_recv returned a queued message after every sender had been dropped
C16_Witness ==
    /\ last.op = "try_recv"
    /\ last.tag = "Ok"
    /\ last.strong = 0
    /\ last.val.from \in Senders

\* what upgrade() returns depends on the strong count alone, and a send made
\* once the receiver is gone fails and hands the message back
C18_UpgradeState ==
    /\ last.op = "upgrade" =>
           /\ last.strong > 0 => last.tag = "Some"
           /\ last.strong = 0 => last.tag = "None"
    /\ (last.op = "send" /\ ~last.rxAlive) =>
           /\ last.tag = "Err"
           /\ last.val = last.arg
           /\ chan = <<>>

\* C18: upgrade() returns Some exactly when the strong count is above zero,
\* whether or not the receiver has been dropped; every send made after the
\* receiver is gone, also through an upgraded sender, fails and returns the
\* message; and once the strong count of a channel is zero it stays zero, so
\* no later upgrade() returns Some.
C18_UpgradeByStrongCount ==
    /\ [] C18_UpgradeState
    /\ [][(rx # "none" /\ StrongCount = 0) =>
              /\ StrongCount' = 0
              /\ ~(last'.op = "upgrade" /\ last'.tag = "Some")]_vars

\* upgrade() returned a sender although the receiver had been dropped
C18_Witness ==
    /\ last.op = "upgrade"
    /\ last.tag = "Some"
    /\ ~last.rxAlive
    /\ rx = "dropped"
    /\ upgraded # {}


\* C17: borrow_watched, on the sender or on a receiver, returns the value in
\* the slot and leaves the slot and every receiver's seen state as they
\* were: each live receiver's changed() does after the call what it would
\* have done before it (resolve at once, or wait).
C17_BorrowFrame ==
    wLast.op = "borrow" =>
        /\ wLast.val = BorrowWatched
        /\ wLast.val = wLatest
        /\ \A r \in Receivers : ChangedOutcome(r) = wLast.before[r]

\* a receiver with an unseen change borrowed, and its changed() still
\* resolves at once, while another receiver with none still waits
C17_Witness ==
    /\ wLast.op = "borrow"
    /\ wLast.rcv \in Receivers
    /\ wLast.before[wLast.rcv] = "Ok"
    /\ ChangedOutcome(wLast.rcv) = "Ok"
    /\ \E t \in Receivers : wLast.before[t] = "Pending" /\ ChangedOutcome(t) = "Pending"

\* C19: a send that fails for want of a receiver leaves the slot holding
\* the value last written to it, which is what borrow_watched on the sender
\* keeps returning, and records no change: the version still counts exactly
\* the notifying writes.
C19_FailedSendFrame ==
    /\ wVersion = wEpoch
    /\ (wLast.op = "send" /\ wLast.tag = "Err") =>
           /\ BorrowWatched = wLatest
           /\ \A r \in Receivers : wRx[r] # "alive"
    /\ (wLast.op = "borrow" /\ wLast.rcv = 0) => wLast.val = wLatest

\* send(v) failed with a different value in the slot, after an earlier
\* send had succeeded
C19_Witness ==
    /\ wLast.op = "send"
    /\ wLast.tag = "Err"
    /\ wLast.arg # BorrowWatched
    /\ wEpoch >= 1

\* while no notifying write has happened, a first changed() on a live
\* channel waits; changed() returns Ok only after a notifying write and Err
\* only once the sender is gone; channel(init) leaves init in the slot
C20_FirstChangedWaits ==
    /\ wLast.op = "channel" => BorrowWatched = wLast.arg
    /\ (wEpoch = 0 /\ wTx = "alive") =>
           \A r \in Receivers : wRx[r] = "alive" => ChangedOutcome(r) = "Pending"
    /\ (wLast.op = "changed" /\ wLast.tag = "Ok") => wEpoch >= 1
    /\ (wLast.op = "changed" /\ wLast.tag = "Err") => wLast.closed

\* C20 as stated: the first changed() waits for a notifying write or the
\* sender's drop, and until a notifying write the slot keeps init.
C20_Original ==
    /\ [] C20_FirstChangedWaits
    /\ [][(wTx # "none" /\ wEpoch' = 0) => wValue' = wValue]_vars

\* C20 (amended): the first changed() waits for a notifying write or the
\* sender's drop; until a notifying write the slot keeps init unless a
\* send_if_modified closure changed it and returned false.
C20_InitSeen ==
    /\ [] C20_FirstChangedWaits
    /\ [][(wTx # "none" /\ wEpoch' = 0 /\ wValue' # wValue) =>
              (wLast'.op = "send_if_modified" /\ ~wLast'.ret)]_vars

\* the first changed() is waiting, no notifying write has happened, and a
\* closure that returned false has replaced init in the slot
C20_Witness ==
    /\ wEpoch = 0
    /\ wTx = "alive"
    /\ wRx[1] = "alive" /\ wPc[1] = "pending" /\ ChangedOutcome(1) = "Pending"
    /\ wLast.op = "send_if_modified" /\ ~wLast.ret
    /\ wLast.arg # wLast.val
    /\ BorrowWatched = wLast.arg


Ended(t) == task[t].st \in {"finished", "panicked"}

\* a task is never cancelled, has taken no more steps than its work has and
\* all of them once ended; a JoinHandle resolves at most once, with the
\* work's output, or with a JoinError that is_panic reports as a panic
C15_JoinOnce ==
    \A t \in Tasks :
        /\ task[t].st \in {"none", "running", "finished", "panicked"}
        /\ task[t].done <= task[t].steps
        /\ Ended(t) => task[t].done = task[t].steps
        /\ task[t].joins <= 1
        /\ (task[t].h = "joined") <=> (task[t].joins = 1)
        /\ task[t].h = "joined" =>
               /\ Ended(t)
               /\ ~ENABLED JoinResolve(t)
               /\ task[t].st = "finished" =>
                      (task[t].res = "Ok" /\ task[t].val = task[t].out /\ ~task[t].isPanic)
               /\ task[t].st = "panicked" =>
                      (task[t].res = "Err" /\ task[t].isPanic)

\* C15: spawned work whose JoinHandle was dropped still takes every one of
\* its steps and ends; an awaited JoinHandle resolves, exactly once, with
\* the computed value or with a JoinError, for which is_panic is true when
\* the work panicked.
C15_DetachedRunsJoinOnce ==
    /\ [] C15_JoinOnce
    /\ \A t \in Tasks :
           (task[t].h = "dropped") ~> (Ended(t) /\ task[t].done = task[t].steps)
    /\ \A t \in Tasks :
           (task[t].h = "awaiting") ~> (task[t].h \in {"joined", "dropped"})

\* the JoinHandle was dropped unawaited, and the work has taken all its
\* steps and returned
C15_Witness ==
    \E t \in Tasks :
        /\ task[t].h = "dropped"
        /\ task[t].st = "finished"
        /\ task[t].steps = MaxSteps
        /\ task[t].done = task[t].steps

====
